---- MODULE Spec2Model ----
(***************************************************************************)
(* The constant pool reader of classparse (src/constant_pool.rs):          *)
(* read_constant_pool decodes the entries, resolve_constant_pool turns the *)
(* raw indices into links by repeated scans, validate_constant_pool checks *)
(* the kind of every link's target.                                        *)
(*                                                                         *)
(* An entry is a record [kind, refs, rk]: refs is the sequence of its      *)
(* ConstantPoolRef cells in field order, rk the ReferenceKind of a         *)
(* MethodHandle ("none" elsewhere).  The payloads that neither resolve nor *)
(* validate reads (the text, the numbers, the bootstrap method index) are  *)
(* not kept.  A cell is [tag, ix]: Unresolved(ix) holds the raw index,     *)
(* Resolved holds the Rc of a pool slot, named here by that slot's index.  *)
(***************************************************************************)
EXTENDS Integers, Sequences, FiniteSets, TLC

VARIABLES
    pool,                 \* constant_pool: the Vec of entries
    pool_len,             \* constant_pool.len() where the entries are not kept (SpecCounter)
    cp_ix,                \* the u16 logical index counter of read_constant_pool
    constant_pool_count,  \* the declared entry count (u16)
    major_version,        \* the class file's major version (u16)
    pc,                   \* "decode", "resolve", "validate", "done", "error", "panic"
    err,                  \* the Err returned: [kind, at]
    resolved_count,       \* resolve_constant_pool's resolved_count
    count,                \* resolve_constant_pool's count of the running scan
    i,                    \* the index of the running for loop
    scans,                \* history: the number of scans started by resolve_constant_pool
    decoded               \* history: the pool as handed to resolve_constant_pool

vars == <<pool, pool_len, cp_ix, constant_pool_count, major_version, pc, err,
          resolved_count, count, i, scans, decoded>>

(* ------------------------------ bounds -------------------------------- *)

\* The largest declared constant_pool_count of the pipeline model.
MaxCount == 3

\* The largest raw index a decoded reference holds.
MaxRaw == 3

\* The major versions tried around the MethodHandle rule's boundary.
VersionSpan == 2

\* The number of entries the input buffer of the counter model can hold.
PoolCap == 65540

(* ------------------------- program constants -------------------------- *)

\* u16::MAX, the range of cp_ix and constant_pool_count.
U16Max == 65535

\* The major version from which invokestatic/invokespecial handles accept
\* interface methods.
RelaxedVersion == 52

RawIx == 0..MaxRaw

MajorVersions == (RelaxedVersion - VersionSpan)..(RelaxedVersion + VersionSpan)

PipelineVersions == {RelaxedVersion - 1, RelaxedVersion}

NoErr == [kind |-> "none", at |-> 0]

(* The entry at pool index n (the Vec is indexed from 0). *)
At(p, n) == p[n + 1]

Indices(p) == 0..(Len(p) - 1)

(* ----------------------- ConstantPoolEntryTypes ----------------------- *)
(* A bitflags value is the set of its bit positions.                      *)

ZERO == {0}
UTF8_mistaken == {0, 1}
UTF8 == {1}
INTEGER == {2}
FLOAT == {3}
LONG == {4}
DOUBLE == {5}
CLASS_INFO == {6}
STRING_FLAG == {7}
FIELD_REF == {8}
METHOD_REF == {9}
INTERFACE_METHOD_REF == {10}
NAME_AND_TYPE == {11}
METHOD_HANDLE == {12}
METHOD_TYPE == {13}
INVOKE_DYNAMIC == {14}
UNUSED == {15}
NEW_METHOD_REFS == METHOD_REF \cup INTERFACE_METHOD_REF

contains(allowed, type) == type \subseteq allowed

(* ------------------------------ entries ------------------------------- *)

Unresolved(ix) == [tag |-> "Unresolved", ix |-> ix]
Resolved(target) == [tag |-> "Resolved", ix |-> target]

Entry(kind, refs, rk) == [kind |-> kind, refs |-> refs, rk |-> rk]

Zero == Entry("Zero", <<>>, "none")
Unused == Entry("Unused", <<>>, "none")

ReferenceKinds == {"GetField", "GetStatic", "PutField", "PutStatic", "InvokeVirtual",
                   "InvokeStatic", "InvokeSpecial", "NewInvokeSpecial", "InvokeInterface"}

(* The per-tag readers, each as the set of entries it returns over all     *)
(* payloads of a well-formed record.                                       *)
read_unresolved_cp_ref == {Unresolved(n) : n \in RawIx}
read_constant_utf8 == {Entry("Utf8", <<>>, "none")}
read_constant_integer == {Entry("Integer", <<>>, "none")}
read_constant_float == {Entry("Float", <<>>, "none")}
read_constant_long == {Entry("Long", <<>>, "none")}
read_constant_double == {Entry("Double", <<>>, "none")}
read_constant_class == {Entry("ClassInfo", <<x>>, "none") : x \in read_unresolved_cp_ref}
read_constant_string == {Entry("String", <<x>>, "none") : x \in read_unresolved_cp_ref}
read_constant_fieldref ==
    {Entry("FieldRef", <<x, y>>, "none") :
        x \in read_unresolved_cp_ref, y \in read_unresolved_cp_ref}
read_constant_methodref ==
    {Entry("MethodRef", <<x, y>>, "none") :
        x \in read_unresolved_cp_ref, y \in read_unresolved_cp_ref}
read_constant_interfacemethodref ==
    {Entry("InterfaceMethodRef", <<x, y>>, "none") :
        x \in read_unresolved_cp_ref, y \in read_unresolved_cp_ref}
read_constant_nameandtype ==
    {Entry("NameAndType", <<x, y>>, "none") :
        x \in read_unresolved_cp_ref, y \in read_unresolved_cp_ref}
read_constant_methodhandle ==
    {Entry("MethodHandle", <<y>>, k) : k \in ReferenceKinds, y \in read_unresolved_cp_ref}
read_constant_methodtype == {Entry("MethodType", <<x>>, "none") : x \in read_unresolved_cp_ref}
read_constant_invokedynamic ==
    {Entry("InvokeDynamic", <<y>>, "none") : y \in read_unresolved_cp_ref}

ValidTags == {1, 3, 4, 5, 6, 7, 8, 9, 10, 11, 12, 15, 16, 18}

(* The match on constant_type of read_constant_pool. *)
read_constant(tag) ==
    CASE tag = 1 -> read_constant_utf8
      [] tag = 3 -> read_constant_integer
      [] tag = 4 -> read_constant_float
      [] tag = 5 -> read_constant_long
      [] tag = 6 -> read_constant_double
      [] tag = 7 -> read_constant_class
      [] tag = 8 -> read_constant_string
      [] tag = 9 -> read_constant_fieldref
      [] tag = 10 -> read_constant_methodref
      [] tag = 11 -> read_constant_interfacemethodref
      [] tag = 12 -> read_constant_nameandtype
      [] tag = 15 -> read_constant_methodhandle
      [] tag = 16 -> read_constant_methodtype
      [] tag = 18 -> read_constant_invokedynamic

(* The ways decoding one entry fails: a read past the end of the buffer,   *)
(* an unknown tag byte, bad modified UTF-8, an unknown reference kind.     *)
DecodeErrors == {"Truncated", "UnknownTag", "MalformedUtf8", "UnknownReferenceKind"}

(* ------------------------- ConstantPoolRef ---------------------------- *)

ref_is_resolved(ref) == ref.tag = "Resolved"

is_resolved_always(e) == TRUE

(* ConstantPoolEntry::is_resolved: every cell of the entry is resolved. *)
is_resolved(e) == \A k \in DOMAIN e.refs : ref_is_resolved(e.refs[k])

(* A result of resolve: res is "Ok" or the error, val the bool of Ok, ref  *)
(* the cell as the call leaves it.                                         *)
RefResult(res, val, ref) == [res |-> res, val |-> val, ref |-> ref]

RefResolveBackwardOnly(ref, my_index, p) ==
    IF ref.tag = "Resolved" THEN RefResult("Ok", TRUE, ref)
    ELSE IF ref.ix = my_index THEN RefResult("SelfReference", FALSE, ref)
    ELSE IF ref.ix >= Len(p) THEN RefResult("OutOfBounds", FALSE, ref)
    ELSE IF ~is_resolved(At(p, ref.ix)) \/ ref.ix > my_index THEN RefResult("Ok", FALSE, ref)
    ELSE RefResult("Ok", TRUE, Resolved(ref.ix))

RefResolveNoSelfCheck(ref, my_index, p) ==
    IF ref.tag = "Resolved" THEN RefResult("Ok", TRUE, ref)
    ELSE IF ref.ix >= Len(p) THEN RefResult("OutOfBounds", FALSE, ref)
    ELSE IF ~is_resolved(At(p, ref.ix)) THEN RefResult("Ok", FALSE, ref)
    ELSE RefResult("Ok", TRUE, Resolved(ref.ix))

(* ConstantPoolRef::resolve. *)
RefResolve(ref, my_index, p) ==
    IF ref.tag = "Resolved" THEN RefResult("Ok", TRUE, ref)
    ELSE IF ref.ix = my_index THEN RefResult("SelfReference", FALSE, ref)
    ELSE IF ref.ix >= Len(p) THEN RefResult("OutOfBounds", FALSE, ref)
    ELSE IF ~is_resolved(At(p, ref.ix)) THEN RefResult("Ok", FALSE, ref)
    ELSE RefResult("Ok", TRUE, Resolved(ref.ix))

(* ------------------------ ConstantPoolEntry --------------------------- *)

EntryResult(res, val, e) == [res |-> res, val |-> val, entry |-> e]

(* ConstantPoolEntry::resolve.  With two cells, x.resolve()? && y.resolve()? *)
(* returns x's error, and calls y.resolve only when x gave Ok(true); what  *)
(* x.resolve wrote stays written when y.resolve fails.                     *)
EntryResolve(e, my_index, p) ==
    IF Len(e.refs) = 0 THEN EntryResult("Ok", TRUE, e)
    ELSE LET x == RefResolve(e.refs[1], my_index, p)
             ex == [e EXCEPT !.refs[1] = x.ref]
         IN  IF Len(e.refs) = 1 \/ x.res # "Ok" \/ ~x.val
             THEN EntryResult(x.res, x.val, ex)
             ELSE LET y == RefResolve(e.refs[2], my_index, p)
                  IN  EntryResult(y.res, y.val, [ex EXCEPT !.refs[2] = y.ref])

(* ConstantPoolEntry::get_type. *)
get_type(e) ==
    CASE e.kind = "Zero" -> ZERO
      [] e.kind = "Utf8" -> UTF8
      [] e.kind = "Integer" -> INTEGER
      [] e.kind = "Float" -> FLOAT
      [] e.kind = "Long" -> LONG
      [] e.kind = "Double" -> DOUBLE
      [] e.kind = "ClassInfo" -> CLASS_INFO
      [] e.kind = "String" -> STRING_FLAG
      [] e.kind = "FieldRef" -> FIELD_REF
      [] e.kind = "MethodRef" -> METHOD_REF
      [] e.kind = "InterfaceMethodRef" -> INTERFACE_METHOD_REF
      [] e.kind = "NameAndType" -> NAME_AND_TYPE
      [] e.kind = "MethodHandle" -> METHOD_HANDLE
      [] e.kind = "MethodType" -> METHOD_TYPE
      [] e.kind = "InvokeDynamic" -> INVOKE_DYNAMIC
      [] e.kind = "Unused" -> UNUSED

(* ConstantPoolEntry::ensure_type: "Ok" for Ok(true), "Err" for the error. *)
ensure_type(e, allowed) == IF contains(allowed, get_type(e)) THEN "Ok" ELSE "Err"

(* RefCell<ConstantPoolRef>::ensure_type: get() panics on an unresolved cell. *)
RefEnsureType(ref, allowed, p) ==
    IF ref.tag = "Unresolved" THEN "Panic" ELSE ensure_type(At(p, ref.ix), allowed)

BothFirstOnly(r1, r2) == r1

(* Ok(x.ensure_type(..)? && y.ensure_type(..)?): ensure_type never gives   *)
(* Ok(false), so y is checked whenever x passed.                           *)
Both(r1, r2) == IF r1 # "Ok" THEN r1 ELSE r2

HandleAllowedOffByOne(rk, mv) ==
    CASE rk \in {"GetField", "GetStatic", "PutField", "PutStatic"} -> FIELD_REF
      [] rk \in {"InvokeVirtual", "NewInvokeSpecial"} -> METHOD_REF
      [] rk \in {"InvokeStatic", "InvokeSpecial"} ->
            IF mv <= RelaxedVersion THEN METHOD_REF ELSE NEW_METHOD_REFS
      [] rk = "InvokeInterface" -> INTERFACE_METHOD_REF

(* The match on the ReferenceKind in ConstantPoolEntry::validate. *)
HandleAllowed(rk, mv) ==
    CASE rk \in {"GetField", "GetStatic", "PutField", "PutStatic"} -> FIELD_REF
      [] rk \in {"InvokeVirtual", "NewInvokeSpecial"} -> METHOD_REF
      [] rk \in {"InvokeStatic", "InvokeSpecial"} ->
            IF mv < RelaxedVersion THEN METHOD_REF ELSE NEW_METHOD_REFS
      [] rk = "InvokeInterface" -> INTERFACE_METHOD_REF

(* ConstantPoolEntry::validate. *)
validate(e, p, mv) ==
    CASE e.kind \in {"ClassInfo", "String", "MethodType"} -> RefEnsureType(e.refs[1], UTF8, p)
      [] e.kind \in {"FieldRef", "MethodRef", "InterfaceMethodRef"} ->
            Both(RefEnsureType(e.refs[1], CLASS_INFO, p),
                 RefEnsureType(e.refs[2], NAME_AND_TYPE, p))
      [] e.kind = "NameAndType" ->
            Both(RefEnsureType(e.refs[1], UTF8, p), RefEnsureType(e.refs[2], UTF8, p))
      [] e.kind = "MethodHandle" -> RefEnsureType(e.refs[1], HandleAllowed(e.rk, mv), p)
      [] e.kind = "InvokeDynamic" -> RefEnsureType(e.refs[1], NAME_AND_TYPE, p)
      [] OTHER -> "Ok"

(* ------------------------ read_constant_pool -------------------------- *)

(* x += 1 on a u16: past u16::MAX a build with overflow checks panics and  *)
(* a build without them wraps.                                             *)
U16Incr(x) ==
    IF x + 1 <= U16Max THEN {[panic |-> FALSE, v |-> x + 1]}
    ELSE {[panic |-> TRUE, v |-> x], [panic |-> FALSE, v |-> (x + 1) % (U16Max + 1)]}

(* The index arithmetic after a push: cp_ix += 1, and for a Long or Double *)
(* cp_ix += 1 again, then the push of Unused.                              *)
AdvanceIndex(ix, tag) ==
    IF tag \in {5, 6}
    THEN UNION { IF a.panic
                 THEN {[panic |-> TRUE, ix |-> a.v, unused |-> FALSE]}
                 ELSE {[panic |-> b.panic, ix |-> b.v, unused |-> ~b.panic] : b \in U16Incr(a.v)}
               : a \in U16Incr(ix) }
    ELSE {[panic |-> a.panic, ix |-> a.v, unused |-> FALSE] : a \in U16Incr(ix)}

Init ==
    /\ constant_pool_count \in 0..MaxCount
    /\ major_version \in PipelineVersions
    /\ pool = <<Zero>>
    /\ pool_len = 1
    /\ cp_ix = 1
    /\ pc = "decode"
    /\ err = NoErr
    /\ resolved_count = 0
    /\ count = 0
    /\ i = 0
    /\ scans = 0
    /\ decoded = <<>>

(* One iteration of the while loop that decodes an entry. *)
DecodeEntry ==
    /\ pc = "decode"
    /\ cp_ix < constant_pool_count
    /\ \E tag \in ValidTags : \E e \in read_constant(tag) : \E o \in AdvanceIndex(cp_ix, tag) :
          /\ pool' = IF o.unused THEN pool \o <<e, Unused>> ELSE Append(pool, e)
          /\ pool_len' = pool_len + (IF o.unused THEN 2 ELSE 1)
          /\ cp_ix' = o.ix
          /\ pc' = IF o.panic THEN "panic" ELSE "decode"
    /\ UNCHANGED <<constant_pool_count, major_version, err, resolved_count, count, i,
                   scans, decoded>>

(* One iteration of the while loop that returns an error. *)
DecodeFail ==
    /\ pc = "decode"
    /\ cp_ix < constant_pool_count
    /\ \E kind \in DecodeErrors : err' = [kind |-> kind, at |-> cp_ix]
    /\ pc' = "error"
    /\ UNCHANGED <<pool, pool_len, cp_ix, constant_pool_count, major_version,
                   resolved_count, count, i, scans, decoded>>

(* The while loop ends and resolve_constant_pool is entered: its first     *)
(* test resolved_count < constant_pool.len() passes, the pool holding Zero.*)
DecodeDone ==
    /\ pc = "decode"
    /\ ~(cp_ix < constant_pool_count)
    /\ decoded' = pool
    /\ resolved_count' = 0
    /\ count' = 0
    /\ i' = 0
    /\ pc' = IF 0 < Len(pool) THEN "resolve" ELSE "validate"
    /\ scans' = IF 0 < Len(pool) THEN 1 ELSE 0
    /\ UNCHANGED <<pool, pool_len, cp_ix, constant_pool_count, major_version, err>>

(* ---------------------- resolve_constant_pool ------------------------- *)

(* One iteration of the for loop: cp_entry.resolve(i, &constant_pool)?. *)
ResolveEntry ==
    /\ pc = "resolve"
    /\ i < Len(pool)
    /\ LET r == EntryResolve(At(pool, i), i, pool)
       IN  /\ pool' = [pool EXCEPT ![i + 1] = r.entry]
           /\ IF r.res = "Ok"
              THEN /\ count' = count + (IF r.val THEN 1 ELSE 0)
                   /\ i' = i + 1
                   /\ UNCHANGED <<pc, err>>
              ELSE /\ pc' = "error"
                   /\ err' = [kind |-> r.res, at |-> i]
                   /\ UNCHANGED <<count, i>>
    /\ UNCHANGED <<pool_len, cp_ix, constant_pool_count, major_version, resolved_count,
                   scans, decoded>>

StalledNever(c, rc) == FALSE

(* The test after a scan: no more entries resolved than in the scan before. *)
Stalled(c, rc) == c = rc

(* The end of a scan: the stall test, then the while test. *)
ScanEnd ==
    /\ pc = "resolve"
    /\ i = Len(pool)
    /\ IF Stalled(count, resolved_count)
       THEN /\ pc' = "error"
            /\ err' = [kind |-> "Unable", at |-> 0]
            /\ UNCHANGED <<resolved_count, count, i, scans>>
       ELSE /\ resolved_count' = count
            /\ i' = 0
            /\ err' = err
            /\ IF count < Len(pool)
               THEN /\ pc' = "resolve"
                    /\ count' = 0
                    /\ scans' = scans + 1
               ELSE /\ pc' = "validate"
                    /\ UNCHANGED <<count, scans>>
    /\ UNCHANGED <<pool, pool_len, cp_ix, constant_pool_count, major_version, decoded>>

(* ---------------------- validate_constant_pool ------------------------ *)

(* One iteration of the for loop: cp_entry.validate(major_version), the    *)
(* error annotated with i.                                                 *)
ValidateEntry ==
    /\ pc = "validate"
    /\ i < Len(pool)
    /\ LET r == validate(At(pool, i), pool, major_version)
       IN  IF r = "Ok"
           THEN /\ i' = i + 1
                /\ UNCHANGED <<pc, err>>
           ELSE /\ pc' = IF r = "Panic" THEN "panic" ELSE "error"
                /\ err' = IF r = "Panic" THEN err ELSE [kind |-> "TypeMismatch", at |-> i]
                /\ i' = i
    /\ UNCHANGED <<pool, pool_len, cp_ix, constant_pool_count, major_version,
                   resolved_count, count, scans, decoded>>

(* The for loop ends: read_constant_pool returns Ok(constant_pool). *)
ValidateDone ==
    /\ pc = "validate"
    /\ i = Len(pool)
    /\ pc' = "done"
    /\ UNCHANGED <<pool, pool_len, cp_ix, constant_pool_count, major_version, err,
                   resolved_count, count, i, scans, decoded>>

Next ==
    \/ DecodeEntry
    \/ DecodeFail
    \/ DecodeDone
    \/ ResolveEntry
    \/ ScanEnd
    \/ ValidateEntry
    \/ ValidateDone

Spec == Init /\ [][Next]_vars

(* ---------------- MethodHandle validation on its own ------------------ *)

(* The entry a tag's reader returns when every raw index read is 0. *)
ReadWithZeroRefs(tag) == {e \in read_constant(tag) : \A k \in DOMAIN e.refs : e.refs[k].ix = 0}

(* Decoded pools whose entry 1 is a MethodHandle: its member is index 0,   *)
(* or an entry of any tag at index 2, or the Unused after a Long or Double.*)
HandleProbePools ==
    UNION { { IF tag \in {5, 6} THEN <<Zero, Entry("MethodHandle", <<Unresolved(t)>>, rk), e, Unused>>
              ELSE <<Zero, Entry("MethodHandle", <<Unresolved(t)>>, rk), e>>
              : e \in ReadWithZeroRefs(tag) }
            : rk \in ReferenceKinds, tag \in ValidTags, t \in {0, 2} }
    \cup { <<Zero, Entry("MethodHandle", <<Unresolved(3)>>, rk), e, Unused>>
            : rk \in ReferenceKinds, e \in read_constant_long \cup read_constant_double }

(* Decoded pools in which all but the MethodHandle's link is well typed. *)
HandleChainPools ==
    { <<Zero,
        Entry("MethodHandle", <<Unresolved(2)>>, rk),
        Entry(m, <<Unresolved(3), Unresolved(4)>>, "none"),
        Entry("ClassInfo", <<Unresolved(5)>>, "none"),
        Entry("NameAndType", <<Unresolved(5), Unresolved(5)>>, "none"),
        Entry("Utf8", <<>>, "none")>>
      : rk \in ReferenceKinds, m \in {"FieldRef", "MethodRef", "InterfaceMethodRef"} }

(* read_constant_pool at its call of resolve_constant_pool, for each of    *)
(* these pools and each major version.                                     *)
InitHandle ==
    /\ pool \in HandleProbePools \cup HandleChainPools
    /\ decoded = pool
    /\ pool_len = Len(pool)
    /\ cp_ix = Len(pool)
    /\ constant_pool_count = Len(pool)
    /\ major_version \in MajorVersions
    /\ pc = "resolve"
    /\ err = NoErr
    /\ resolved_count = 0
    /\ count = 0
    /\ i = 0
    /\ scans = 1

NextHandle ==
    \/ ResolveEntry
    \/ ScanEnd
    \/ ValidateEntry
    \/ ValidateDone

SpecHandle == InitHandle /\ [][NextHandle]_vars

(* ------------- the index counter at its full 16-bit width ------------- *)
(* The entries are not kept here: pool stays at its first push and         *)
(* pool_len is constant_pool.len().                                        *)

InitCounter ==
    /\ constant_pool_count \in {U16Max - 1, U16Max}
    /\ major_version = RelaxedVersion
    /\ pool = <<Zero>>
    /\ pool_len = 1
    /\ cp_ix = 1
    /\ pc = "decode"
    /\ err = NoErr
    /\ resolved_count = 0
    /\ count = 0
    /\ i = 0
    /\ scans = 0
    /\ decoded = <<>>

(* One iteration of the while loop that decodes an entry, while the buffer *)
(* holds another entry.                                                    *)
CounterDecode ==
    /\ pc = "decode"
    /\ cp_ix < constant_pool_count
    /\ pool_len < PoolCap
    /\ \E tag \in ValidTags : \E o \in AdvanceIndex(cp_ix, tag) :
          /\ pool_len' = pool_len + (IF o.unused THEN 2 ELSE 1)
          /\ cp_ix' = o.ix
          /\ pc' = IF o.panic THEN "panic" ELSE "decode"
    /\ UNCHANGED <<pool, constant_pool_count, major_version, err, resolved_count, count, i,
                   scans, decoded>>

(* The while loop ends. *)
CounterDone ==
    /\ pc = "decode"
    /\ ~(cp_ix < constant_pool_count)
    /\ pc' = "resolve"
    /\ scans' = 1
    /\ UNCHANGED <<pool, pool_len, cp_ix, constant_pool_count, major_version, err,
                   resolved_count, count, i, decoded>>

NextCounter ==
    \/ CounterDecode
    \/ DecodeFail
    \/ CounterDone

SpecCounter == InitCounter /\ [][NextCounter]_vars

(* ======================= properties of the reader ===================== *)

(* The raw index a decoded pool holds in cell k of entry n. *)
Raw(p, n, k) == At(p, n).refs[k].ix

Slots(p, n) == DOMAIN At(p, n).refs

(* The entries that entry n references. *)
Succ(p, n) == {Raw(p, n, k) : k \in Slots(p, n)} \cap Indices(p)

RECURSIVE Closure(_, _)
Closure(p, S) ==
    LET T == S \cup UNION {Succ(p, n) : n \in S}
    IN  IF T = S THEN S ELSE Closure(p, T)

(* Some entry reaches itself along references (a self-reference included). *)
HasCycle(p) == \E n \in Indices(p) : n \in Closure(p, Succ(p, n))

HasSelfRef(p) == \E n \in Indices(p) : \E k \in Slots(p, n) : Raw(p, n, k) = n

FirstSlotSelf(p) == \E n \in Indices(p) : Slots(p, n) # {} /\ Raw(p, n, 1) = n

HasOob(p) == \E n \in Indices(p) : \E k \in Slots(p, n) : Raw(p, n, k) >= Len(p)

AllCellsResolved(e) == \A k \in DOMAIN e.refs : e.refs[k].tag = "Resolved"

(* resolve_constant_pool has been called. *)
Handed == decoded # <<>>

(* resolve_constant_pool returned Ok(()). *)
ResolveOk == pc \in {"validate", "done"} \/ (pc = "error" /\ err.kind = "TypeMismatch")

ResolveErr(kind) == pc = "error" /\ err.kind = kind

(* The type-compatibility matrix, by kind names. *)
HandleTargetOk(rk, kind, mv) ==
    CASE rk \in {"GetField", "GetStatic", "PutField", "PutStatic"} -> kind = "FieldRef"
      [] rk \in {"InvokeVirtual", "NewInvokeSpecial"} -> kind = "MethodRef"
      [] rk = "InvokeInterface" -> kind = "InterfaceMethodRef"
      [] rk \in {"InvokeStatic", "InvokeSpecial"} ->
            kind = "MethodRef" \/ (mv >= 52 /\ kind = "InterfaceMethodRef")

SlotOk(e, k, kind, mv) ==
    CASE e.kind \in {"ClassInfo", "String", "MethodType"} -> kind = "Utf8"
      [] e.kind \in {"FieldRef", "MethodRef", "InterfaceMethodRef"} ->
            IF k = 1 THEN kind = "ClassInfo" ELSE kind = "NameAndType"
      [] e.kind = "NameAndType" -> kind = "Utf8"
      [] e.kind = "InvokeDynamic" -> kind = "NameAndType"
      [] e.kind = "MethodHandle" -> HandleTargetOk(e.rk, kind, mv)

(* Entry n of the resolved pool p has a link the matrix does not permit. *)
Violates(p, n, mv) ==
    \E k \in Slots(p, n) : ~SlotOk(At(p, n), k, At(p, Raw(p, n, k)).kind, mv)

(* C1: for a pool whose raw indices are all below the pool length and      *)
(* whose reference graph is acyclic, resolve_constant_pool returns none of *)
(* its three errors, starts at most pool-length scans, and when it has     *)
(* returned every cell of every entry is resolved.                         *)
C1_AcyclicResolves ==
    (Handed /\ ~HasOob(decoded) /\ ~HasCycle(decoded)) =>
        /\ pc # "panic"
        /\ ~ResolveErr("SelfReference")
        /\ ~ResolveErr("OutOfBounds")
        /\ ~ResolveErr("Unable")
        /\ scans <= Len(pool)
        /\ (ResolveOk => \A n \in Indices(pool) : AllCellsResolved(At(pool, n)))

(* An acyclic pool with a forward reference has been resolved, in more     *)
(* than one scan.                                                          *)
C1_Witness ==
    /\ Handed /\ ~HasOob(decoded) /\ ~HasCycle(decoded)
    /\ ResolveOk
    /\ scans >= 2
    /\ \E n \in Indices(decoded) : \E k \in Slots(decoded, n) : Raw(decoded, n, k) > n
    /\ \E n \in Indices(decoded) : \E k \in Slots(decoded, n) : Raw(decoded, n, k) < n

C3_OobReportedAtOnce ==
    (Handed /\ ~HasSelfRef(decoded) /\ HasOob(decoded)) =>
        /\ ~ResolveOk
        /\ (pc = "error" => err.kind = "OutOfBounds" /\ scans = 1)

(* C4: a pool with all raw indices in bounds, no self-reference and a      *)
(* cycle of two or more entries never resolves, fails with no error but    *)
(* the unable-to-resolve error, and starts at most pool-length + 1 scans.  *)
C4_CycleStalls ==
    (Handed /\ ~HasOob(decoded) /\ ~HasSelfRef(decoded) /\ HasCycle(decoded)) =>
        /\ ~ResolveOk
        /\ pc # "panic"
        /\ (pc = "error" => err.kind = "Unable")
        /\ scans <= Len(pool) + 1

(* Two NameAndType entries whose name cells name each other have failed    *)
(* with the unable-to-resolve error.                                       *)
C4_Witness ==
    /\ Handed /\ Len(decoded) = 3
    /\ At(decoded, 1).kind = "NameAndType" /\ Raw(decoded, 1, 1) = 2 /\ Raw(decoded, 1, 2) = 0
    /\ At(decoded, 2).kind = "NameAndType" /\ Raw(decoded, 2, 1) = 1 /\ Raw(decoded, 2, 2) = 0
    /\ ResolveErr("Unable")

(* The MethodHandle at index 1 has passed, or has failed, its validation. *)
HandlePassed == (pc = "validate" /\ i >= 2) \/ pc = "done"
                   \/ (pc = "error" /\ err.kind = "TypeMismatch" /\ err.at > 1)
HandleFailed == pc = "error" /\ err.kind = "TypeMismatch" /\ err.at = 1

(* C5: a MethodHandle with a resolved member passes validation exactly     *)
(* when the member's kind is the one its reference kind asks for at the    *)
(* major version.                                                          *)
C5_HandleMatrix ==
    LET h == At(pool, 1)
        kind == At(pool, h.refs[1].ix).kind
    IN  /\ pc # "panic"
        /\ (HandlePassed => HandleTargetOk(h.rk, kind, major_version))
        /\ (HandleFailed => ~HandleTargetOk(h.rk, kind, major_version))
        /\ (ResolveOk /\ ~HandlePassed /\ ~HandleFailed => pc = "validate" /\ i <= 1)

(* An invokestatic handle to an InterfaceMethodRef has passed at version 52. *)
C5_Witness ==
    /\ HandlePassed
    /\ At(pool, 1).rk = "InvokeStatic"
    /\ At(pool, At(pool, 1).refs[1].ix).kind = "InterfaceMethodRef"
    /\ major_version = 52

(* C6: validate_constant_pool fails exactly when some entry has a link the *)
(* matrix does not permit, it reports the smallest index of such an entry  *)
(* (the referring entry, not the target), and it stops there.              *)
C6_FirstViolation ==
    /\ (pc = "validate" => \A n \in 0..(i - 1) : ~Violates(pool, n, major_version))
    /\ (pc = "done" => \A n \in Indices(pool) : ~Violates(pool, n, major_version))
    /\ (ResolveErr("TypeMismatch") =>
            /\ err.at \in Indices(pool)
            /\ Violates(pool, err.at, major_version)
            /\ \A n \in 0..(err.at - 1) : ~Violates(pool, n, major_version)
            /\ i = err.at)

(* A ClassInfo naming a Float has failed validation, reported at the       *)
(* ClassInfo's index.                                                      *)
C6_Witness ==
    /\ ResolveErr("TypeMismatch")
    /\ At(pool, err.at).kind = "ClassInfo"
    /\ At(pool, Raw(pool, err.at, 1)).kind = "Float"
    /\ Raw(pool, err.at, 1) > err.at

(* C7: in a pool read_constant_pool returns, every cell is resolved, its   *)
(* target's kind is permitted by the matrix, and no cell links to index 0  *)
(* or to an Unused placeholder.                                            *)
C7_ReturnedPoolTyped ==
    pc = "done" =>
        \A n \in Indices(pool) : \A k \in Slots(pool, n) :
            /\ At(pool, n).refs[k].tag = "Resolved"
            /\ Raw(pool, n, k) \in Indices(pool)
            /\ SlotOk(At(pool, n), k, At(pool, Raw(pool, n, k)).kind, major_version)
            /\ Raw(pool, n, k) # 0
            /\ At(pool, Raw(pool, n, k)).kind \notin {"Zero", "Unused"}

(* A pool with a link has been returned. *)
C7_Witness ==
    /\ pc = "done"
    /\ \E n \in Indices(pool) : Slots(pool, n) # {}

(* C8: at the start of every iteration of the decode loop the pool holds   *)
(* as many entries as the index counter says, and a Long or Double is      *)
(* followed by an Unused placeholder.                                      *)
C8_IndexIsLength ==
    /\ (pc = "decode" => pool_len = cp_ix)
    /\ (pc = "decode" =>
            \A n \in Indices(pool) :
                At(pool, n).kind \in {"Long", "Double"} =>
                    n + 1 \in Indices(pool) /\ At(pool, n + 1).kind = "Unused")

(* C9: a resolved cell links to the entry at its raw index, which is below *)
(* the pool length, is not the owning entry and is itself fully resolved.  *)
C9_ResolvedCells ==
    \A n \in Indices(pool) : \A k \in Slots(pool, n) :
        At(pool, n).refs[k].tag = "Resolved" =>
            /\ Handed
            /\ Raw(pool, n, k) = Raw(decoded, n, k)
            /\ Raw(pool, n, k) < Len(pool)
            /\ Raw(pool, n, k) # n
            /\ AllCellsResolved(At(pool, Raw(pool, n, k)))

(* C9: a resolved cell is left as it is by every step. *)
C9_CellsKept ==
    \A n \in Indices(pool) : \A k \in Slots(pool, n) :
        At(pool, n).refs[k].tag = "Resolved" =>
            /\ n \in Indices(pool')
            /\ At(pool', n).refs[k] = At(pool, n).refs[k]

(* C9: in every state of resolve_constant_pool each resolved cell links to *)
(* the fully resolved entry at its raw index, and stays so, also after an  *)
(* error.                                                                  *)
C9_ResolvedIsStable == []C9_ResolvedCells /\ [][C9_CellsKept]_vars

(* Resolution has failed with a cell resolved. *)
C9_Witness ==
    /\ pc = "error" /\ err.kind \in {"SelfReference", "OutOfBounds", "Unable"}
    /\ \E n \in Indices(pool) : \E k \in Slots(pool, n) : At(pool, n).refs[k].tag = "Resolved"

(* C10: the index counter never overflows a u16, and the decode loop       *)
(* pushes at most constant_pool_count + 1 entries.                         *)
C10_CounterInRange ==
    /\ pc # "panic"
    /\ cp_ix >= 1
    /\ cp_ix <= U16Max
    /\ pool_len <= constant_pool_count + 1

====
